---- MODULE Spec2Model ----
(***************************************************************************)
(* Model of the authentication backend of chat-app-express-ts: startup     *)
(* configuration, the JWT token service (AuthService), the cookie policy   *)
(* (CookieHelper), the auth route handlers, the route guard (protectRoute) *)
(* and the way Express answers a request whose handler failed.             *)
(*                                                                         *)
(* Time is counted in days since the process started (the clock starts at  *)
(* StartOfTime, after the Unix epoch 0).  A JWT is a record of its payload *)
(* and of the secret it was signed with.                                   *)
(***************************************************************************)
EXTENDS Naturals, Sequences, FiniteSets, TLC

VARIABLES
  processEnv,  \* process.env after dotenv.config()
  phase,       \* "running" once config/env validated, "exited" after process.exit(1)
  now,         \* the clock
  users,       \* the User collection (the Credential Store)
  nextOid,     \* the next ObjectId the store hands out
  kept,        \* the token pair a client (or whoever copied it) still holds
  resp,        \* the response to the request being answered (NoResponse between requests)
  proc,        \* the HTTP server and the process: listening handle, open connections,
               \* 'close' listeners, shutdown timers, signals received, exit code
  pending      \* signup requests in flight, each at one of its await points

vars == <<processEnv, phase, now, users, nextOid, kept, resp, proc, pending>>

\* ------------------------------------------------------------------ bounds

MaxTime == 3
MaxUsers == 2
MaxRequests == 2
MaxTriggers == 2
MaxConnections == 2

\* -------------------------------------------------------------- input sets

UNSET == "<unset>"
K1 == "k1-0123456789abcdef0123456789abcdef"
K2 == "k2-0123456789abcdef0123456789abcdef"
SHORT == "too-short-secret"
AttackerKey == "a-key-the-server-never-had"

Emails == {"a@b.com", "c@d.com"}
StrongPasswords == {"Abc12345!", "Xyz98765!"}
WeakPassword == "abc"

\* ----------------------------------------------------- config/env (part_008)

MinSecretLen == 32

NodeEnvs == {"development", "production", "test"}

\* z.coerce.boolean().default(d): Boolean(value), so every non-empty string is true
coerceBoolean(raw, dflt) ==
  IF raw = UNSET THEN dflt ELSE raw # ""

\* z.string().default(d)
stringDefault(raw, dflt) ==
  IF raw = UNSET THEN dflt ELSE raw

\* baseEnvSchema.safeParse(process.env).success
baseValidationOk(pe) ==
  /\ pe.NODE_ENV \in NodeEnvs \cup {UNSET}
  /\ pe.COOKIE_SAME_SITE \in {"strict", "lax", "none", UNSET}

\* baseValidation.data, with the development defaults of the secrets set
baseEnv(pe) ==
  LET mode == stringDefault(pe.NODE_ENV, "development")
      devDefault(raw, dflt) == IF mode = "development" /\ raw = UNSET THEN dflt ELSE raw
  IN [ NODE_ENV |-> mode,
       JWT_SECRET |-> devDefault(pe.JWT_SECRET, "dev-jwt-secret-key-32-characters-long"),
       JWT_EXPIRES_IN |-> stringDefault(pe.JWT_EXPIRES_IN, "24h"),
       JWT_REFRESH_SECRET |->
         devDefault(pe.JWT_REFRESH_SECRET, "dev-jwt-refresh-secret-32-chars-long"),
       JWT_REFRESH_EXPIRES_IN |-> stringDefault(pe.JWT_REFRESH_EXPIRES_IN, "7d"),
       SESSION_SECRET |->
         devDefault(pe.SESSION_SECRET, "dev-session-secret-key-32-characters"),
       COOKIE_SECRET |-> devDefault(pe.COOKIE_SECRET, "dev-cookie-secret-key-32-characters"),
       COOKIE_SECURE |-> coerceBoolean(pe.COOKIE_SECURE, FALSE),
       COOKIE_HTTP_ONLY |-> coerceBoolean(pe.COOKIE_HTTP_ONLY, TRUE),
       COOKIE_SAME_SITE |-> stringDefault(pe.COOKIE_SAME_SITE, "lax"),
       COOKIE_ACCESS_TOKEN_EXPIRES |-> 15 * 60 * 1000,
       COOKIE_REFRESH_TOKEN_EXPIRES |-> 7 * 24 * 60 * 60 * 1000 ]

\* a secret only required to be present
secretOk_PresentOnly(s) == s # UNSET

\* z.string().min(32): present and long enough
secretOk(s) == s # UNSET /\ Len(s) >= MinSecretLen

\* envSchema.safeParse(baseEnv).success
envValidationOk(pe) ==
  /\ baseValidationOk(pe)
  /\ secretOk(baseEnv(pe).JWT_SECRET)
  /\ secretOk(baseEnv(pe).JWT_REFRESH_SECRET)
  /\ secretOk(baseEnv(pe).SESSION_SECRET)
  /\ secretOk(baseEnv(pe).COOKIE_SECRET)

\* the exported env (defined while the process runs)
env == baseEnv(processEnv)

isDevelopment == env.NODE_ENV = "development"
isProduction == env.NODE_ENV = "production"

\* ----------------------------------------------------- jsonwebtoken, as used

\* ms('24h') and the like, in days (jsonwebtoken's timespan)
timespan(s) ==
  CASE s = "24h" -> 1
    [] s = "2d" -> 2
    [] s = "7d" -> 7

\* JSON form of an ObjectId: its hex string
toHexString(oid) == oid.oid

\* Mongoose casting the string back for findById
castObjectId(hex) == [oid |-> hex]

Absent == [kind |-> "absent"]
Malformed == [kind |-> "malformed"]

\* jwt.sign(payload, secret, {expiresIn})
jwtSign(payload, secret, expiresIn) ==
  [ kind |-> "jwt", id |-> payload.id, email |-> payload.email,
    iat |-> now, exp |-> now + timespan(expiresIn), sig |-> secret ]

jwtError(name, message) == [ok |-> FALSE, name |-> name, message |-> message]

\* jwt.verify(token, secret, options): the payload, or the error it throws
jwtVerifyOpts(token, secret, ignoreExpiration) ==
  IF token.kind # "jwt" THEN jwtError("JsonWebTokenError", "jwt malformed")
  ELSE IF token.sig # secret THEN jwtError("JsonWebTokenError", "invalid signature")
  ELSE IF ~ignoreExpiration /\ now >= token.exp
    THEN jwtError("TokenExpiredError", "jwt expired")
  ELSE [ok |-> TRUE, id |-> token.id, email |-> token.email,
        iat |-> token.iat, exp |-> token.exp]

jwtVerify(token, secret) == jwtVerifyOpts(token, secret, FALSE)

\* ------------------------------------------------------ AuthService (part_006)

JWT_SECRET == stringDefault(processEnv.JWT_SECRET, "default_jwt_secret")
JWT_EXPIRES_IN == stringDefault(processEnv.JWT_EXPIRES_IN, "24h")
JWT_REFRESH_SECRET == stringDefault(processEnv.JWT_REFRESH_SECRET, "default_jwt_refresh_secret")
JWT_REFRESH_EXPIRES_IN == stringDefault(processEnv.JWT_REFRESH_EXPIRES_IN, "7d")

idClaim(user) == [id |-> toHexString(user._id), email |-> user.email]

\* generateToken signing with the refresh secret
generateToken_RefreshSecret(user) == jwtSign(idClaim(user), JWT_REFRESH_SECRET, JWT_EXPIRES_IN)

generateToken(user) == jwtSign(idClaim(user), JWT_SECRET, JWT_EXPIRES_IN)

\* verifyToken passing { ignoreExpiration: true }
verifyToken_IgnoreExpiration(token) == jwtVerifyOpts(token, JWT_SECRET, TRUE)

verifyToken(token) == jwtVerify(token, JWT_SECRET)

\* generateRefreshToken leaving the email out of the payload
generateRefreshToken_NoEmail(user) ==
  jwtSign([id |-> toHexString(user._id), email |-> ""], JWT_REFRESH_SECRET,
          JWT_REFRESH_EXPIRES_IN)

generateRefreshToken(user) ==
  jwtSign(idClaim(user), JWT_REFRESH_SECRET, JWT_REFRESH_EXPIRES_IN)

generateTokenPair(user) ==
  [accessToken |-> generateToken(user), refreshToken |-> generateRefreshToken(user)]

verifyRefreshToken(token) == jwtVerify(token, JWT_REFRESH_SECRET)

\* ------------------------------------------------- User model (user.model.ts)

\* bcrypt.hash in the pre-save hook
bcryptHash(password) == [bcrypt |-> password]

\* userSchema.methods.comparePassword
comparePassword(user, candidatePassword) == user.password = bcryptHash(candidatePassword)

\* User.findOne({ email }): the set of matches (the unique index keeps it to one)
findOneByEmail(email) == {u \in users : u.email = email}

\* userSchema.statics.existsByEmail
existsByEmail(email) == findOneByEmail(email) # {}

\* User.findById(id)
findById(id) == {u \in users : u._id = castObjectId(id)}

\* the document User.create saves
\* what the driver throws when an insert breaks a unique index (code 11000)
duplicateKeyError ==
  [name |-> "MongoServerError", message |-> "E11000 duplicate key error",
   statusCode |-> 0, errorType |-> "none", isOperational |-> FALSE]

\* User.create on a collection without the unique index on email
create_NoUniqueIndex(doc) == [ok |-> TRUE, user |-> doc]

\* User.create: the insert is refused when the unique index on email has the value
create(doc) ==
  IF existsByEmail(doc.email) THEN [ok |-> FALSE, error |-> duplicateKeyError]
  ELSE [ok |-> TRUE, user |-> doc]

newUserDoc(email, password) ==
  [_id |-> [oid |-> nextOid], email |-> email, password |-> bcryptHash(password)]

\* --------------------------------------------------- errors (part_012, part_009)

\* a thrown Error; statusCode 0 stands for "has no statusCode property"
plainError(message) ==
  [name |-> "Error", message |-> message, statusCode |-> 0,
   errorType |-> "none", isOperational |-> FALSE]

\* new AppError(message, statusCode, errorType)
AppError(message, statusCode, errorType) ==
  [name |-> "AppError", message |-> message, statusCode |-> statusCode,
   errorType |-> errorType, isOperational |-> TRUE]

\* the error object jsonwebtoken throws
jwtThrown(v) ==
  [name |-> v.name, message |-> v.message, statusCode |-> 0,
   errorType |-> "none", isOperational |-> FALSE]

\* ------------------------------------------- AuthService flows (part_006)

INVALID_CREDENTIALS == "Invalid email or password"
EMAIL_ALREADY_EXISTS == "An account with this email already exists"
PASSWORD_MISMATCH == "Password and confirm password do not match"
TOKEN_INVALID == "Invalid token"

failed(error, calls) == [ok |-> FALSE, error |-> error, calls |-> calls]
issued(user, calls) ==
  [ok |-> TRUE, tokens |-> generateTokenPair(user), user |-> user, calls |-> calls]

\* refreshTokens trusting the decoded claim, without looking the user up
refreshTokens_NoLookup(refreshToken) ==
  LET decoded == verifyRefreshToken(refreshToken) IN
  IF ~decoded.ok THEN failed(jwtThrown(decoded), <<>>)
  ELSE issued([_id |-> castObjectId(decoded.id), email |-> decoded.email], <<>>)

\* refreshTokens refusing a refresh token that was already used for a refresh
refreshTokens_SingleUse(refreshToken) ==
  LET decoded == verifyRefreshToken(refreshToken) IN
  IF ~decoded.ok THEN failed(jwtThrown(decoded), <<>>)
  ELSE IF kept.held /\ kept.superseded /\ refreshToken = kept.refreshToken
    THEN failed(plainError("Invalid refresh token"), <<>>)
  ELSE IF findById(decoded.id) = {}
    THEN failed(plainError("User not found"), <<"findById">>)
  ELSE issued(CHOOSE u \in findById(decoded.id) : TRUE, <<"findById">>)

\* AuthService.refreshTokens: every thrown value is an Error, so it is rethrown as is
refreshTokens(refreshToken) ==
  LET decoded == verifyRefreshToken(refreshToken) IN
  IF ~decoded.ok THEN failed(jwtThrown(decoded), <<>>)
  ELSE IF findById(decoded.id) = {}
    THEN failed(plainError("User not found"), <<"findById">>)
  ELSE issued(CHOOSE u \in findById(decoded.id) : TRUE, <<"findById">>)

\* login telling a lookup miss apart: 404 'User not found'
login_UserNotFound(email, password) ==
  LET found == findOneByEmail(email) IN
  IF found = {} THEN failed(AppError("User not found", 404, "NOT_FOUND"), <<"findOne">>)
  ELSE LET user == CHOOSE u \in found : TRUE IN
    IF ~comparePassword(user, password)
      THEN failed(plainError(INVALID_CREDENTIALS), <<"findOne", "comparePassword">>)
    ELSE issued(user, <<"findOne", "comparePassword">>)

\* login issuing tokens for any account that exists, without comparing the password
login_NoCompare(email, password) ==
  LET found == findOneByEmail(email) IN
  IF found = {} THEN failed(plainError(INVALID_CREDENTIALS), <<"findOne">>)
  ELSE issued(CHOOSE u \in found : TRUE, <<"findOne">>)

\* AuthService.login
login(email, password) ==
  LET found == findOneByEmail(email) IN
  IF found = {} THEN failed(plainError(INVALID_CREDENTIALS), <<"findOne">>)
  ELSE LET user == CHOOSE u \in found : TRUE IN
    IF ~comparePassword(user, password)
      THEN failed(plainError(INVALID_CREDENTIALS), <<"findOne", "comparePassword">>)
    ELSE issued(user, <<"findOne", "comparePassword">>)

\* signup answering an email that has an account with tokens for that account
signup_IssuesOnDuplicate(body) ==
  IF body.password # body.confirmPassword THEN failed(plainError(PASSWORD_MISMATCH), <<>>)
  ELSE IF existsByEmail(body.email)
    THEN issued(CHOOSE u \in findOneByEmail(body.email) : TRUE, <<"existsByEmail">>)
  ELSE issued(newUserDoc(body.email, body.password), <<"existsByEmail", "create">>)

\* AuthService.signup; the record created is result.user
signup(body) ==
  IF body.password # body.confirmPassword THEN failed(plainError(PASSWORD_MISMATCH), <<>>)
  ELSE IF existsByEmail(body.email)
    THEN failed(plainError(EMAIL_ALREADY_EXISTS), <<"existsByEmail">>)
  ELSE issued(newUserDoc(body.email, body.password), <<"existsByEmail", "create">>)

\* -------------------------------------------- validation (auth.validator.ts)

\* passwordSchema: length and character classes
passwordSchemaOk(password) == password \in StrongPasswords

\* signupValidationSchema.safeParse(...).success
signupValidationOk(body) ==
  /\ body.email \in Emails
  /\ passwordSchemaOk(body.password)
  /\ body.password = body.confirmPassword

\* signinValidationSchema.safeParse(...).success
signinValidationOk(body) ==
  /\ body.email \in Emails
  /\ body.password # ""

\* the error validate() hands to next()
validationError == AppError("Validation error", 400, "VALIDATION_ERROR")

\* ------------------------------------------------ CookieHelper (cookieHelper.ts)

getBaseCookieOptions ==
  [ httpOnly |-> env.COOKIE_HTTP_ONLY,
    secure |-> IF isProduction THEN TRUE ELSE env.COOKIE_SECURE,
    sameSite |-> env.COOKIE_SAME_SITE,
    path |-> "/" ]

\* an options object without the expires property, and new Date(t)
NoDate == [given |-> FALSE]
Date(t) == [given |-> TRUE, time |-> t]

getAccessTokenCookieOptions ==
  [base |-> getBaseCookieOptions, maxAge |-> env.COOKIE_ACCESS_TOKEN_EXPIRES, expires |-> NoDate]

getRefreshTokenCookieOptions ==
  [base |-> getBaseCookieOptions, maxAge |-> env.COOKIE_REFRESH_TOKEN_EXPIRES,
   expires |-> NoDate]

\* getClearCookieOptions keeping the access cookie's maxAge
getClearCookieOptions_KeepsMaxAge ==
  [base |-> getBaseCookieOptions, maxAge |-> env.COOKIE_ACCESS_TOKEN_EXPIRES,
   expires |-> Date(0)]

\* getClearCookieOptions built from fixed attributes instead of the configured ones
getClearCookieOptions_FixedAttributes ==
  [base |-> [httpOnly |-> TRUE, secure |-> isProduction, sameSite |-> "lax", path |-> "/"],
   maxAge |-> 0, expires |-> Date(0)]

\* expires: new Date(0), the epoch
getClearCookieOptions ==
  [base |-> getBaseCookieOptions, maxAge |-> 0, expires |-> Date(0)]

ACCESS_TOKEN == "accessToken"
REFRESH_TOKEN == "refreshToken"

\* ------------------------------------------------------------ the response

NoCookie == [set |-> FALSE]
EmptyString == [kind |-> "empty"]
NoUser == [attached |-> FALSE]
NoBody == [type |-> "none"]

\* a response nothing has been written to yet
res0(op, req) ==
  [ op |-> op, req |-> req, status |-> 0, body |-> NoBody,
    cookies |-> [n \in {ACCESS_TOKEN, REFRESH_TOKEN} |-> NoCookie],
    nextCalled |-> FALSE, nextCalls |-> 0, localsUser |-> NoUser, calls |-> <<>>,
    log |-> <<>> ]

\* res.cookie(name, value, options)
cookie(res, name, value, options) ==
  [res EXCEPT !.cookies[name] = [set |-> TRUE, value |-> value, opts |-> options]]

\* ResponseBuilder.success(res, data, message, statusCode = 200)
ResponseBuilder_success(res, data, message) ==
  [res EXCEPT !.status = 200,
              !.body = [type |-> "json", success |-> TRUE, message |-> message, data |-> data]]

\* ResponseBuilder.error(res, message, statusCode)
ResponseBuilder_error(res, message, statusCode) ==
  [res EXCEPT !.status = statusCode,
              !.body = [type |-> "json", success |-> FALSE, message |-> message,
                        data |-> "null"]]

\* ------------------------------------------ error handling (part_007, app.ts)

\* convertToAppError: a thrown value that is no AppError, JWT or Mongo error becomes
\* AppError.internal
convertToAppError(error) ==
  IF error.name = "MongoServerError"
    THEN AppError("Duplicate field value. Please use another value!", 400, "DUPLICATE_KEY")
  ELSE IF error.name = "JsonWebTokenError"
    THEN AppError("Invalid token. Please log in again!", 401, "UNAUTHORIZED")
  ELSE IF error.name = "TokenExpiredError"
    THEN AppError("Your token has expired! Please log in again.", 401, "UNAUTHORIZED")
  ELSE IF error.name = "AppError" THEN error
  ELSE AppError("Something went wrong!", 500, "INTERNAL_SERVER")

\* globalErrorHandler: sendErrorDev or sendErrorProd
globalErrorHandler(error, res) ==
  LET appError == convertToAppError(error)
      message == IF isDevelopment \/ appError.isOperational
                   THEN appError.message ELSE "Something went wrong!"
  IN [res EXCEPT !.status = appError.statusCode,
                 !.body = [type |-> "json", success |-> FALSE, message |-> message,
                           data |-> appError.errorType]]

\* the number of parameters globalErrorHandler declares
globalErrorHandlerLength == 3

\* statuses.message[status]
statusMessage(status) ==
  CASE status = 400 -> "Bad Request"
    [] status = 401 -> "Unauthorized"
    [] status = 404 -> "Not Found"
    [] OTHER -> "Internal Server Error"

\* Express's final handler: the error's statusCode if it is 4xx/5xx, else 500; an HTML
\* page that shows err.stack (name and message first) unless NODE_ENV is production,
\* where it shows the status text
finalhandler(error, res) ==
  LET status == IF error.statusCode >= 400 /\ error.statusCode < 600
                  THEN error.statusCode ELSE 500
  IN [res EXCEPT !.status = status,
                 !.body = [type |-> "html",
                           text |-> IF processEnv.NODE_ENV = "production"
                                      THEN <<statusMessage(status)>>
                                      ELSE <<error.name, error.message>>]]

\* next(error): Express runs a middleware as an error handler only if it declares
\* four parameters; app.use(notFoundHandler) and app.use(globalErrorHandler) are the
\* only middlewares after the routes
nextError(error, res) ==
  IF globalErrorHandlerLength = 4 THEN globalErrorHandler(error, res)
  ELSE finalhandler(error, res)

\* the catch of typedAsyncHandler: logger.error with the request's params, body and
\* query, then next(error)
typedAsyncHandlerCatch(error, res) ==
  nextError(error,
            [res EXCEPT !.log = Append(@, [level |-> "error",
                                           message |-> "TypedAsyncHandler caught error:",
                                           error |-> error.message,
                                           body |-> res.req])])

\* --------------------------------------------- server and process (server.ts)

NoExit == [exited |-> FALSE]

\* process.exit(code), and the place that called it
exit(code, by) == [exited |-> TRUE, code |-> code, by |-> by]

\* the process once the env module was evaluated: gone with code 1 if validation
\* failed, else alive with the server created; listening tells whether server.listen
\* has bound its handle
procAfterEnv(pe, listening) ==
  [ handle |-> listening /\ envValidationOk(pe),
    connections |-> 0,
    closeListeners |-> <<>>,
    timers |-> 0,
    signals |-> <<>>,
    exit |-> IF envValidationOk(pe) THEN NoExit ELSE exit(1, "env validation") ]

\* gracefulShutdown without the forced-exit timer
gracefulShutdown_NoTimeout(p, signal) ==
  [p EXCEPT !.signals = Append(@, signal),
            !.closeListeners = Append(@, ~p.handle),
            !.handle = FALSE]

\* gracefulShutdown(signal): server.close(callback) stops listening and registers the
\* callback for 'close' (it will get ERR_SERVER_NOT_RUNNING if the server was not
\* listening); setTimeout(..., 30000) arms the forced exit
gracefulShutdown(p, signal) ==
  [p EXCEPT !.signals = Append(@, signal),
            !.closeListeners = Append(@, ~p.handle),
            !.handle = FALSE,
            !.timers = @ + 1]

\* the callback given to server.close: exit(1) on err, else cleanup and exit(0)
closeCallback(err) == IF err THEN exit(1, "close callback") ELSE exit(0, "close callback")

\* ------------------------------------------------------------------- state

StartOfTime == 1

NoPair == [held |-> FALSE]
NoResponse == [op |-> "none"]
Idle == [pc |-> "idle"]
NoRequests == [r \in 1..MaxRequests |-> Idle]

ProcessEnvs ==
  [ NODE_ENV : {"development", "production"},
    JWT_SECRET : {UNSET, K1},
    JWT_REFRESH_SECRET : {K1, SHORT},
    JWT_EXPIRES_IN : {UNSET},
    JWT_REFRESH_EXPIRES_IN : {"2d"},
    SESSION_SECRET : {K1},
    COOKIE_SECRET : {K2},
    COOKIE_SECURE : {UNSET},
    COOKIE_HTTP_ONLY : {UNSET},
    COOKIE_SAME_SITE : {UNSET} ]

Init ==
  /\ processEnv \in ProcessEnvs
  /\ phase = IF envValidationOk(processEnv) THEN "running" ELSE "exited"
  /\ now = StartOfTime
  /\ users = {}
  /\ nextOid = 1
  /\ kept = NoPair
  /\ resp = NoResponse
  /\ proc = procAfterEnv(processEnv, TRUE)
  /\ pending = NoRequests

\* a JWT nobody on the server signed
Forged ==
  [ kind |-> "jwt", id |-> 1, email |-> "a@b.com",
    iat |-> StartOfTime, exp |-> MaxTime + 1, sig |-> AttackerKey ]

\* what a request can carry in a token cookie
PresentedTokens ==
  {Absent, Malformed, Forged}
    \cup (IF kept.held THEN {kept.accessToken, kept.refreshToken} ELSE {})

\* the request's cookies, and what is known of the pair they were taken from: whether
\* they are the tokens held, whether the refresh token held was already used for a
\* successful refresh, whether a logout was answered since the pair was issued
cookiesOf(access, refresh) ==
  [ accessToken |-> access, refreshToken |-> refresh,
    ownAccess |-> kept.held /\ access = kept.accessToken,
    ownRefresh |-> kept.held /\ refresh = kept.refreshToken,
    superseded |-> kept.held /\ kept.superseded,
    afterLogout |-> kept.held /\ kept.loggedOut ]

\* the pair just issued, as the client stores it
keep(result) ==
  [ held |-> TRUE, user |-> [_id |-> result.user._id, email |-> result.user.email],
    accessToken |-> result.tokens.accessToken,
    refreshToken |-> result.tokens.refreshToken,
    superseded |-> FALSE, loggedOut |-> FALSE ]

\* req.cookies[name] is falsy
falsy(token) == token \in {Absent, EmptyString}

\* the two res.cookie calls that follow a successful issuance
setTokenCookies(res, tokens) ==
  cookie(cookie(res, ACCESS_TOKEN, tokens.accessToken, getAccessTokenCookieOptions),
         REFRESH_TOKEN, tokens.refreshToken, getRefreshTokenCookieOptions)

\* the two res.cookie calls that clear the token cookies
clearTokenCookies(res) ==
  cookie(cookie(res, ACCESS_TOKEN, EmptyString, getClearCookieOptions),
         REFRESH_TOKEN, EmptyString, getClearCookieOptions)

\* ------------------------------------- controllers (auth.controller.ts)
\* A controller yields the response and the service result it rests on.

handled(res, result) == [res |-> [res EXCEPT !.calls = result.calls], result |-> result]

\* signin controller behind typedAsyncHandler
signin(body) ==
  LET res == res0("signin", body)
      result == login(body.email, body.password)
  IN IF ~result.ok THEN handled(typedAsyncHandlerCatch(result.error, res), result)
     ELSE handled(ResponseBuilder_success(setTokenCookies(res, result.tokens),
                                          [message |-> "Login successful"],
                                          "Login successful"),
                  result)

\* the service result, with the awaited emailService.sendSignupEmail call noted: it
\* returned, or it threw
sent(result, emailOk) ==
  [result EXCEPT !.calls = Append(@, IF emailOk THEN "sendSignupEmail"
                                                ELSE "sendSignupEmail throws")]

\* signup controller letting a failed welcome email fail the request
signupController_EmailFailureFails(body, emailOk) ==
  LET res == res0("signup", body)
      result == signup(body)
  IN IF ~result.ok THEN handled(typedAsyncHandlerCatch(result.error, res), result)
     ELSE IF ~emailOk
       THEN handled(typedAsyncHandlerCatch(plainError("Failed to send email"),
                                           setTokenCookies(res, result.tokens)),
                    sent(result, emailOk))
     ELSE handled(ResponseBuilder_success(
                    setTokenCookies(res, result.tokens),
                    [message |-> "Account created successfully", emailSent |-> TRUE],
                    "Account created successfully"),
                  sent(result, emailOk))

\* signup controller behind typedAsyncHandler; emailOk tells whether sendSignupEmail
\* returned or threw
signupController(body, emailOk) ==
  LET res == res0("signup", body)
      result == signup(body)
  IN IF ~result.ok THEN handled(typedAsyncHandlerCatch(result.error, res), result)
     ELSE handled(ResponseBuilder_success(
                    setTokenCookies(res, result.tokens),
                    [message |-> "Account created successfully", emailSent |-> emailOk],
                    "Account created successfully"),
                  sent(result, emailOk))

\* logout controller: the response
logout(cookies) ==
  ResponseBuilder_success(clearTokenCookies(res0("logout", cookies)),
                          [message |-> "Logout successful"], "Logout successful")

\* refreshToken controller answering a refused token without clearing the cookies
refreshToken_KeepsCookies(cookies) ==
  LET res == res0("refresh", cookies) IN
  IF falsy(cookies.refreshToken)
    THEN handled(ResponseBuilder_error(res, "Refresh token not found", 401),
                 failed(plainError("Refresh token not found"), <<>>))
  ELSE LET result == refreshTokens(cookies.refreshToken) IN
    IF result.ok
      THEN handled(ResponseBuilder_success(setTokenCookies(res, result.tokens),
                                           [message |-> "Tokens refreshed successfully"],
                                           "Tokens refreshed"),
                   result)
      ELSE handled(ResponseBuilder_error(res, result.error.message, 401), result)

\* refreshToken controller answering a missing cookie with 400
refreshToken_MissingIs400(cookies) ==
  LET res == res0("refresh", cookies) IN
  IF falsy(cookies.refreshToken)
    THEN handled(ResponseBuilder_error(res, "Refresh token not found", 400),
                 failed(plainError("Refresh token not found"), <<>>))
  ELSE LET result == refreshTokens(cookies.refreshToken) IN
    IF result.ok
      THEN handled(ResponseBuilder_success(setTokenCookies(res, result.tokens),
                                           [message |-> "Tokens refreshed successfully"],
                                           "Tokens refreshed"),
                   result)
      ELSE handled(ResponseBuilder_error(clearTokenCookies(res), result.error.message, 401),
                   result)

\* refreshToken controller
refreshToken(cookies) ==
  LET res == res0("refresh", cookies) IN
  IF falsy(cookies.refreshToken)
    THEN handled(ResponseBuilder_error(res, "Refresh token not found", 401),
                 failed(plainError("Refresh token not found"), <<>>))
  ELSE LET result == refreshTokens(cookies.refreshToken) IN
    IF result.ok
      THEN handled(ResponseBuilder_success(setTokenCookies(res, result.tokens),
                                           [message |-> "Tokens refreshed successfully"],
                                           "Tokens refreshed"),
                   result)
      ELSE handled(ResponseBuilder_error(clearTokenCookies(res), result.error.message, 401),
                   result)

\* what JSON.stringify keeps of { accessToken, refreshToken }: a property that is
\* undefined is left out
cookieData(cookies) ==
  [n \in {m \in {ACCESS_TOKEN, REFRESH_TOKEN} : cookies[m] # Absent} |-> cookies[n]]

\* testCookie controller (GET /auth/test/cookie)
testCookie(cookies) ==
  LET res == res0("testCookie", cookies) IN
  IF ~falsy(cookies.accessToken) \/ ~falsy(cookies.refreshToken)
    THEN ResponseBuilder_success(res, cookieData(cookies), "Cookies retrieved successfully")
    ELSE ResponseBuilder_error(res, "No auth cookies found", 404)

\* protectRoute refusing the tokens of a session that was logged out
protectRoute_AfterLogout(cookies) ==
  LET res == res0("protected", cookies) IN
  IF falsy(cookies.accessToken) THEN ResponseBuilder_error(res, TOKEN_INVALID, 401)
  ELSE LET decoded == verifyToken(cookies.accessToken)
           called == [res EXCEPT !.calls = <<"verifyToken">>]
       IN
    IF decoded.ok /\ ~(cookies.ownAccess /\ cookies.afterLogout)
      THEN [called EXCEPT !.localsUser = [attached |-> TRUE, id |-> decoded.id,
                                           email |-> decoded.email],
                          !.nextCalled = TRUE, !.nextCalls = 1]
      ELSE ResponseBuilder_error(called, TOKEN_INVALID, 401)

\* protectRoute handing whatever the cookie holds, nothing included, to verifyToken
protectRoute_NoPresenceCheck(cookies) ==
  LET res == res0("protected", cookies)
      decoded == verifyToken(cookies.accessToken)
      called == [res EXCEPT !.calls = <<"verifyToken">>]
  IN IF decoded.ok
       THEN [called EXCEPT !.localsUser = [attached |-> TRUE, id |-> decoded.id,
                                            email |-> decoded.email],
                           !.nextCalled = TRUE, !.nextCalls = 1]
       ELSE ResponseBuilder_error(called, decoded.message, 401)

\* protectRoute answering every verification failure with the fixed message
protectRoute_FixedMessage(cookies) ==
  LET res == res0("protected", cookies) IN
  IF falsy(cookies.accessToken) THEN ResponseBuilder_error(res, TOKEN_INVALID, 401)
  ELSE LET decoded == verifyToken(cookies.accessToken)
           called == [res EXCEPT !.calls = <<"verifyToken">>]
       IN
    IF decoded.ok
      THEN [called EXCEPT !.localsUser = [attached |-> TRUE, id |-> decoded.id,
                                           email |-> decoded.email],
                          !.nextCalled = TRUE, !.nextCalls = 1]
      ELSE ResponseBuilder_error(called, TOKEN_INVALID, 401)

\* protectRoute looking the token's user up and refusing when the record is gone or
\* carries another email
protectRoute_ChecksUser(cookies) ==
  LET res == res0("protected", cookies) IN
  IF falsy(cookies.accessToken) THEN ResponseBuilder_error(res, TOKEN_INVALID, 401)
  ELSE LET decoded == verifyToken(cookies.accessToken)
           called == [res EXCEPT !.calls = <<"verifyToken">>]
       IN
    IF ~decoded.ok THEN ResponseBuilder_error(called, decoded.message, 401)
    ELSE IF \A u \in findById(decoded.id) : u.email # decoded.email
      THEN ResponseBuilder_error([called EXCEPT !.calls = <<"verifyToken", "findById">>],
                                 "User not found", 401)
    ELSE [called EXCEPT !.localsUser = [attached |-> TRUE, id |-> decoded.id,
                                         email |-> decoded.email],
                        !.nextCalled = TRUE, !.nextCalls = 1]

\* protectRoute: the response it writes, or next() with res.locals.user set
protectRoute(cookies) ==
  LET res == res0("protected", cookies) IN
  IF falsy(cookies.accessToken) THEN ResponseBuilder_error(res, TOKEN_INVALID, 401)
  ELSE LET decoded == verifyToken(cookies.accessToken)
           called == [res EXCEPT !.calls = <<"verifyToken">>]
       IN
    IF decoded.ok
      THEN [called EXCEPT !.localsUser = [attached |-> TRUE, id |-> decoded.id,
                                           email |-> decoded.email],
                          !.nextCalled = TRUE, !.nextCalls = 1]
      ELSE ResponseBuilder_error(called, decoded.message, 401)

\* ------------------------------------------------- routes (auth.router.ts)

\* what validate() does when the schema rejects the request: next(AppError 400)
rejected(op, body) ==
  handled(nextError(validationError, res0(op, body)), failed(validationError, <<>>))

\* the signup route with neither the validator nor the service comparing the passwords
signupRoute_NoConfirmation(body, emailOk) ==
  LET res == res0("signup", body)
      result == IF existsByEmail(body.email)
                  THEN failed(plainError(EMAIL_ALREADY_EXISTS), <<"existsByEmail">>)
                  ELSE issued(newUserDoc(body.email, body.password),
                              <<"existsByEmail", "create">>)
  IN IF ~(body.email \in Emails /\ passwordSchemaOk(body.password))
       THEN rejected("signup", body)
     ELSE IF ~result.ok THEN handled(typedAsyncHandlerCatch(result.error, res), result)
     ELSE handled(ResponseBuilder_success(
                    setTokenCookies(res, result.tokens),
                    [message |-> "Account created successfully", emailSent |-> emailOk],
                    "Account created successfully"),
                  sent(result, emailOk))

\* router.post('/signup', validateSignup, signup)
signupRoute(body, emailOk) ==
  IF ~signupValidationOk(body) THEN rejected("signup", body)
  ELSE signupController(body, emailOk)

\* router.post('/signin', validateSignin, signin)
signinRoute(body) ==
  IF ~signinValidationOk(body) THEN rejected("signin", body)
  ELSE signin(body)

\* ------------------------------------------------------------- the requests

SignupBodies ==
  { [email |-> e, password |-> pc[1], confirmPassword |-> pc[2]] :
      e \in Emails,
      pc \in {<<"Abc12345!", "Abc12345!">>, <<"Abc12345!", "Xyz98765!">>,
              <<WeakPassword, WeakPassword>>} }

SigninBodies == [email : Emails, password : StrongPasswords]

\* logout is asked with no cookie, with the pair held, or with tokens of another origin
LogoutCookies ==
  {cookiesOf(Absent, Absent), cookiesOf(Forged, Forged)}
    \cup (IF kept.held THEN {cookiesOf(kept.accessToken, kept.refreshToken)} ELSE {})

\* the client takes the new pair, or whoever holds the old one keeps it
Keeps(result) == {keep(result)} \cup (IF kept.held THEN {kept} ELSE {})

\* POST /api/auth/signup
PostSignup ==
  /\ phase = "running"
  /\ resp = NoResponse
  /\ \E body \in SignupBodies, emailOk \in BOOLEAN :
       LET out == signupRoute(body, emailOk)
           created == out.result.ok
       IN /\ created => nextOid <= MaxUsers
          /\ created \/ emailOk
          /\ resp' = out.res
          /\ users' = IF created THEN users \cup {out.result.user} ELSE users
          /\ nextOid' = IF created THEN nextOid + 1 ELSE nextOid
          /\ kept' \in (IF created THEN Keeps(out.result) ELSE {kept})
  /\ UNCHANGED <<proc, pending, processEnv, phase, now>>

\* POST /api/auth/signin
PostSignin ==
  /\ phase = "running"
  /\ resp = NoResponse
  /\ \E body \in SigninBodies :
       LET out == signinRoute(body) IN
         /\ resp' = out.res
         /\ kept' \in (IF out.result.ok THEN Keeps(out.result) ELSE {kept})
  /\ UNCHANGED <<proc, pending, processEnv, phase, now, users, nextOid>>

\* POST /api/auth/logout
PostLogout ==
  /\ phase = "running"
  /\ resp = NoResponse
  /\ \E cookies \in LogoutCookies : resp' = logout(cookies)
  /\ kept' = IF kept.held THEN [kept EXCEPT !.loggedOut = TRUE] ELSE kept
  /\ UNCHANGED <<proc, pending, processEnv, phase, now, users, nextOid>>

\* POST /api/auth/refresh
PostRefresh ==
  /\ phase = "running"
  /\ resp = NoResponse
  /\ \E refresh \in PresentedTokens :
       LET cookies == cookiesOf(Absent, refresh)
           out == refreshToken(cookies)
           used == IF cookies.ownRefresh THEN [kept EXCEPT !.superseded = TRUE] ELSE kept
       IN /\ resp' = out.res
          /\ kept' \in (IF out.result.ok THEN {keep(out.result), used} ELSE {kept})
  /\ UNCHANGED <<proc, pending, processEnv, phase, now, users, nextOid>>

\* a request to a route behind protectRoute
Protected ==
  /\ phase = "running"
  /\ resp = NoResponse
  /\ \E access \in PresentedTokens :
       resp' = protectRoute(cookiesOf(access, Absent))
  /\ UNCHANGED <<proc, pending, processEnv, phase, now, users, nextOid, kept>>

\* GET /api/auth/test/cookie
GetTestCookie ==
  /\ phase = "running"
  /\ resp = NoResponse
  /\ \E cookies \in LogoutCookies : resp' = testCookie(cookies)
  /\ UNCHANGED <<proc, pending, processEnv, phase, now, users, nextOid, kept>>

\* the response has been sent ('finish'); the server is ready for the next request
Finish ==
  /\ resp # NoResponse
  /\ resp' = NoResponse
  /\ UNCHANGED <<proc, pending, processEnv, phase, now, users, nextOid, kept>>

\* a user record is deleted from the collection (outside the API)
DeleteUser ==
  /\ phase = "running"
  /\ resp = NoResponse
  /\ \E u \in users : users' = users \ {u}
  /\ resp' = NoResponse
  /\ UNCHANGED <<proc, pending, processEnv, phase, now, nextOid, kept>>

\* a user record's email is changed in the collection (outside the API); the unique
\* index keeps two records from sharing an email
ChangeEmail ==
  /\ phase = "running"
  /\ resp = NoResponse
  /\ \E u \in users, e \in Emails :
       /\ ~existsByEmail(e)
       /\ users' = (users \ {u}) \cup {[u EXCEPT !.email = e]}
  /\ UNCHANGED <<proc, pending, processEnv, phase, now, nextOid, kept, resp>>

\* the clock advances; no request is being answered
Tick ==
  /\ phase = "running"
  /\ resp = NoResponse
  /\ now < MaxTime
  /\ now' = now + 1
  /\ resp' = NoResponse
  /\ UNCHANGED <<proc, pending, processEnv, phase, users, nextOid, kept>>

Next ==
  \/ PostSignup
  \/ PostSignin
  \/ PostLogout
  \/ PostRefresh
  \/ Protected
  \/ GetTestCookie
  \/ Finish
  \/ DeleteUser
  \/ ChangeEmail
  \/ Tick

Spec == Init /\ [][Next]_vars

\* ------------------------------------- signup requests at their await points

SignupInit == Init

done(r, body, res, calls) ==
  [pending EXCEPT ![r] = [pc |-> "done", body |-> body,
                          res |-> [res EXCEPT !.calls = calls]]]

\* POST /signup arrives: validateSignup, then the controller calls authService.signup,
\* which runs up to `await User.existsByEmail(email)`
SignupReceived(r) ==
  /\ phase = "running"
  /\ pending[r].pc = "idle"
  /\ \E body \in SignupBodies :
       pending' =
         IF ~signupValidationOk(body)
           THEN done(r, body, rejected("signup", body).res, <<>>)
         ELSE IF body.password # body.confirmPassword
           THEN done(r, body,
                     typedAsyncHandlerCatch(plainError(PASSWORD_MISMATCH),
                                            res0("signup", body)), <<>>)
         ELSE [pending EXCEPT ![r] = [pc |-> "existsByEmail", body |-> body]]
  /\ UNCHANGED <<proc, processEnv, phase, now, users, nextOid, kept, resp>>

\* existsByEmail resolves: throw if the email is there, else run up to
\* `await User.create(...)`
ExistsByEmailReturns(r) ==
  /\ phase = "running"
  /\ pending[r].pc = "existsByEmail"
  /\ LET body == pending[r].body
     IN pending' =
          IF existsByEmail(body.email)
            THEN done(r, body,
                      typedAsyncHandlerCatch(plainError(EMAIL_ALREADY_EXISTS),
                                             res0("signup", body)),
                      <<"existsByEmail">>)
          ELSE [pending EXCEPT ![r].pc = "create"]
  /\ UNCHANGED <<proc, processEnv, phase, now, users, nextOid, kept, resp>>

\* User.create settles: on rejection the error goes to next; else generateTokenPair,
\* setTokenCookies, and the controller runs up to `await sendSignupEmail(...)`
CreateReturns(r) ==
  /\ phase = "running"
  /\ pending[r].pc = "create"
  /\ LET body == pending[r].body
         created == create(newUserDoc(body.email, body.password))
     IN IF ~created.ok
          THEN /\ pending' = done(r, body,
                                  typedAsyncHandlerCatch(created.error,
                                                         res0("signup", body)),
                                  <<"existsByEmail", "create throws">>)
               /\ UNCHANGED <<users, nextOid>>
        ELSE /\ nextOid <= MaxUsers
             /\ users' = users \cup {created.user}
             /\ nextOid' = nextOid + 1
             /\ pending' =
                  [pending EXCEPT ![r] =
                     [pc |-> "sendSignupEmail", body |-> body,
                      res |-> setTokenCookies(res0("signup", body),
                                              generateTokenPair(created.user))]]
  /\ UNCHANGED <<proc, processEnv, phase, now, kept, resp>>

\* sendSignupEmail settles either way and the response is sent
SignupEmailReturns(r) ==
  /\ phase = "running"
  /\ pending[r].pc = "sendSignupEmail"
  /\ \E emailOk \in BOOLEAN :
       pending' =
         done(r, pending[r].body,
              ResponseBuilder_success(
                pending[r].res,
                [message |-> "Account created successfully", emailSent |-> emailOk],
                "Account created successfully"),
              sent([calls |-> <<"existsByEmail", "create">>], emailOk).calls)
  /\ UNCHANGED <<proc, processEnv, phase, now, users, nextOid, kept, resp>>

SignupNext ==
  \E r \in 1..MaxRequests :
    \/ SignupReceived(r)
    \/ ExistsByEmailReturns(r)
    \/ CreateReturns(r)
    \/ SignupEmailReturns(r)

SignupSpec == SignupInit /\ [][SignupNext]_vars

\* -------------------------------------------- startup and shutdown of the process

Signals == {"SIGTERM", "SIGINT", "uncaughtException", "unhandledRejection"}

\* process.env with each required secret missing, too short or long enough
StartupEnvs ==
  [ NODE_ENV : {UNSET, "development", "production", "test"},
    JWT_SECRET : {UNSET, SHORT, K1},
    JWT_REFRESH_SECRET : {UNSET, SHORT, K2},
    JWT_EXPIRES_IN : {UNSET},
    JWT_REFRESH_EXPIRES_IN : {UNSET},
    SESSION_SECRET : {UNSET, SHORT, K1},
    COOKIE_SECRET : {UNSET, SHORT, K2},
    COOKIE_SECURE : {UNSET},
    COOKIE_HTTP_ONLY : {UNSET},
    COOKIE_SAME_SITE : {UNSET} ]

\* the process as node starts it, before any module was evaluated
LifecycleInit ==
  /\ processEnv \in StartupEnvs
  /\ phase = "starting"
  /\ now = StartOfTime
  /\ users = {}
  /\ nextOid = 1
  /\ kept = NoPair
  /\ resp = NoResponse
  /\ proc = [procAfterEnv(processEnv, FALSE) EXCEPT !.exit = NoExit]
  /\ pending = NoRequests

\* the modules are evaluated: the env module validates process.env and exits with
\* code 1 on failure, else server.ts creates the server and calls startServer
Startup ==
  /\ phase = "starting"
  /\ proc' = procAfterEnv(processEnv, FALSE)
  /\ phase' = IF envValidationOk(processEnv) THEN "running" ELSE "exited"
  /\ UNCHANGED <<processEnv, now, users, nextOid, kept, resp, pending>>

\* server.listen has bound the port
Listen ==
  /\ phase = "running"
  /\ ~proc.handle /\ proc.signals = <<>>
  /\ proc' = [proc EXCEPT !.handle = TRUE]
  /\ UNCHANGED <<processEnv, phase, now, users, nextOid, kept, resp, pending>>

\* server.on('error'): the port could not be bound
ServerError ==
  /\ phase = "running"
  /\ ~proc.handle /\ proc.signals = <<>>
  /\ proc' = [proc EXCEPT !.exit = exit(1, "server error")]
  /\ phase' = "exited"
  /\ UNCHANGED <<processEnv, now, users, nextOid, kept, resp, pending>>

\* a client connects to the listening server
Connect ==
  /\ phase = "running"
  /\ proc.handle
  /\ proc.connections < MaxConnections
  /\ proc' = [proc EXCEPT !.connections = @ + 1]
  /\ UNCHANGED <<processEnv, phase, now, users, nextOid, kept, resp, pending>>

\* a connection ends
Disconnect ==
  /\ phase = "running"
  /\ proc.connections > 0
  /\ proc' = [proc EXCEPT !.connections = @ - 1]
  /\ UNCHANGED <<processEnv, phase, now, users, nextOid, kept, resp, pending>>

\* SIGTERM, SIGINT, an uncaught exception or an unhandled rejection: gracefulShutdown
Shutdown ==
  /\ phase = "running"
  /\ Len(proc.signals) < MaxTriggers
  /\ \E signal \in Signals : proc' = gracefulShutdown(proc, signal)
  /\ UNCHANGED <<processEnv, phase, now, users, nextOid, kept, resp, pending>>

\* the server emits 'close' (closed, no connection left): its listeners run in the
\* order they were registered, and the first one ends the process
ServerClosed ==
  /\ phase = "running"
  /\ proc.closeListeners # <<>>
  /\ ~proc.handle /\ proc.connections = 0
  /\ proc' = [proc EXCEPT !.exit = closeCallback(proc.closeListeners[1])]
  /\ phase' = "exited"
  /\ UNCHANGED <<processEnv, now, users, nextOid, kept, resp, pending>>

\* a 30-second timer set by gracefulShutdown fires
ForceShutdown ==
  /\ phase = "running"
  /\ proc.timers > 0
  /\ proc' = [proc EXCEPT !.exit = exit(1, "timeout")]
  /\ phase' = "exited"
  /\ UNCHANGED <<processEnv, now, users, nextOid, kept, resp, pending>>

LifecycleNext ==
  \/ Startup
  \/ Listen
  \/ ServerError
  \/ Connect
  \/ Disconnect
  \/ Shutdown
  \/ ServerClosed
  \/ ForceShutdown

\* a timer that was set fires unless the process ends first
LifecycleSpec == LifecycleInit /\ [][LifecycleNext]_vars /\ WF_vars(ForceShutdown)

\* ------------------------------------- the cookie settings a deployment can have

\* process.env with the secrets in place and the cookie settings, each unset, "true",
\* "false", empty (a line `NAME=` in .env) or, for COOKIE_SAME_SITE, outside the enum
CookieEnvs ==
  [ NODE_ENV : {UNSET, "development", "production", "test"},
    JWT_SECRET : {K1},
    JWT_REFRESH_SECRET : {K2},
    JWT_EXPIRES_IN : {UNSET},
    JWT_REFRESH_EXPIRES_IN : {UNSET},
    SESSION_SECRET : {K1},
    COOKIE_SECRET : {K2},
    COOKIE_SECURE : {UNSET, "true", "false", ""},
    COOKIE_HTTP_ONLY : {UNSET, "true", "false", ""},
    COOKIE_SAME_SITE : {UNSET, "strict", "none", "sometimes"} ]

CookieInit ==
  /\ processEnv \in CookieEnvs
  /\ phase = IF envValidationOk(processEnv) THEN "running" ELSE "exited"
  /\ now = StartOfTime
  /\ users = {}
  /\ nextOid = 1
  /\ kept = NoPair
  /\ resp = NoResponse
  /\ proc = procAfterEnv(processEnv, TRUE)
  /\ pending = NoRequests

\* the handlers that write cookies
CookieNext ==
  \/ PostSignup
  \/ PostSignin
  \/ PostLogout
  \/ PostRefresh
  \/ Finish

CookieSpec == CookieInit /\ [][CookieNext]_vars

\* ------------------------------------------------------------------ claims

ok200(res) == res.status = 200 /\ res.body.type = "json" /\ res.body.success

\* the response sets both token cookies to JWTs the service's verifiers accept
setsFreshPair(res) ==
  /\ res.cookies[ACCESS_TOKEN].set /\ res.cookies[REFRESH_TOKEN].set
  /\ verifyToken(res.cookies[ACCESS_TOKEN].value).ok
  /\ verifyRefreshToken(res.cookies[REFRESH_TOKEN].value).ok

\* the response sets no token cookie at all
setsNoCookie(res) ==
  ~res.cookies[ACCESS_TOKEN].set /\ ~res.cookies[REFRESH_TOKEN].set

\* the response writes both token cookies empty (no token is handed out)
clearsBoth(res) ==
  \A n \in {ACCESS_TOKEN, REFRESH_TOKEN} :
    res.cookies[n].set /\ res.cookies[n].value = EmptyString

\* C1: before its expiry, a token the service issued for an identity verifies with
\* the verifier of its class and yields that identity's id and email.
C1_RoundTrip ==
  kept.held =>
    /\ now < kept.accessToken.exp =>
         /\ verifyToken(kept.accessToken).ok
         /\ verifyToken(kept.accessToken).id = toHexString(kept.user._id)
         /\ verifyToken(kept.accessToken).email = kept.user.email
    /\ now < kept.refreshToken.exp =>
         /\ verifyRefreshToken(kept.refreshToken).ok
         /\ verifyRefreshToken(kept.refreshToken).id = toHexString(kept.user._id)
         /\ verifyRefreshToken(kept.refreshToken).email = kept.user.email

C1_Witness ==
  /\ kept.held
  /\ now < kept.accessToken.exp
  /\ verifyToken(kept.accessToken).ok
  /\ verifyRefreshToken(kept.refreshToken).ok
  /\ kept.user.email = "c@d.com"

\* C2 (as claimed): in every configuration the service starts with, the access
\* verifier refuses every refresh token issued and the refresh verifier refuses every
\* access token issued.
C2_CrossClassRejected ==
  kept.held =>
    /\ ~verifyToken(kept.refreshToken).ok
    /\ ~verifyRefreshToken(kept.accessToken).ok

\* C3: once its TTL has elapsed, an issued token fails verification by the verifier
\* of its class with TokenExpiredError, not with the invalid-token JsonWebTokenError.
C3_ExpiredNotInvalid ==
  kept.held =>
    /\ now >= kept.accessToken.exp =>
         /\ ~verifyToken(kept.accessToken).ok
         /\ verifyToken(kept.accessToken).name = "TokenExpiredError"
    /\ now >= kept.refreshToken.exp =>
         /\ ~verifyRefreshToken(kept.refreshToken).ok
         /\ verifyRefreshToken(kept.refreshToken).name = "TokenExpiredError"

C3_Witness ==
  /\ kept.held
  /\ now >= kept.refreshToken.exp
  /\ verifyRefreshToken(kept.refreshToken).name = "TokenExpiredError"

\* C4: a refresh request carrying a refresh token that an earlier successful refresh
\* already used, not yet expired and of a user that still exists, succeeds and sets a
\* new token pair.
C4_SupersededStillRefreshes ==
  ( /\ resp.op = "refresh"
    /\ resp.req.ownRefresh /\ resp.req.superseded
    /\ now < resp.req.refreshToken.exp
    /\ findById(resp.req.refreshToken.id) # {} )
  => ok200(resp) /\ setsFreshPair(resp)

C4_Witness ==
  /\ resp.op = "refresh"
  /\ resp.req.ownRefresh /\ resp.req.superseded
  /\ ok200(resp)
  /\ resp.cookies[REFRESH_TOKEN].value.iat > resp.req.refreshToken.iat

\* C5: a refresh request whose refresh token verifies but whose user record is gone
\* is refused with 'User not found' and hands out no token.
C5_DeletedUserNotRefreshed ==
  ( /\ resp.op = "refresh"
    /\ verifyRefreshToken(resp.req.refreshToken).ok
    /\ findById(resp.req.refreshToken.id) = {} )
  => /\ resp.status = 401
     /\ resp.body.type = "json" /\ ~resp.body.success
     /\ resp.body.message = "User not found"
     /\ clearsBoth(resp)

C5_Witness ==
  /\ resp.op = "refresh"
  /\ resp.req.ownRefresh
  /\ verifyRefreshToken(resp.req.refreshToken).ok
  /\ findById(resp.req.refreshToken.id) = {}
  /\ resp.body.message = "User not found"

\* C6: after a logout was answered, an issued access token that has not expired still
\* passes protectRoute, and an issued refresh token that has not expired (its user
\* still there) is still accepted by the refresh route.
C6_LogoutRevokesNothing ==
  /\ ( /\ resp.op = "protected"
       /\ resp.req.ownAccess /\ resp.req.afterLogout
       /\ now < resp.req.accessToken.exp )
     => /\ resp.nextCalled
        /\ resp.localsUser.attached
        /\ resp.localsUser.id = resp.req.accessToken.id
  /\ ( /\ resp.op = "refresh"
       /\ resp.req.ownRefresh /\ resp.req.afterLogout
       /\ now < resp.req.refreshToken.exp
       /\ findById(resp.req.refreshToken.id) # {} )
     => ok200(resp) /\ setsFreshPair(resp)

C6_Witness ==
  /\ resp.op = "protected"
  /\ resp.req.ownAccess /\ resp.req.afterLogout
  /\ resp.nextCalled

\* C7: a successful signup, signin or refresh response sets both token cookies, and
\* the two tokens carry the same id and email, those of one user record.
C7_PairSameIdentity ==
  (resp.op \in {"signup", "signin", "refresh"} /\ ok200(resp)) =>
    LET a == resp.cookies[ACCESS_TOKEN]
        r == resp.cookies[REFRESH_TOKEN]
    IN /\ a.set /\ r.set
       /\ a.value.kind = "jwt" /\ r.value.kind = "jwt"
       /\ a.value.id = r.value.id
       /\ a.value.email = r.value.email
       /\ \E u \in users : idClaim(u) = [id |-> a.value.id, email |-> a.value.email]
       /\ a.value.sig = JWT_SECRET /\ r.value.sig = JWT_REFRESH_SECRET

C7_Witness ==
  /\ resp.op = "signin" /\ ok200(resp)
  /\ resp.cookies[ACCESS_TOKEN].set /\ resp.cookies[REFRESH_TOKEN].set
  /\ Cardinality(users) = 2

\* C8: a signup whose password and confirmPassword differ makes no call on the User
\* model (no existsByEmail, no create), is not answered with success and sets no cookie.
C8_MismatchFailsFast ==
  (resp.op = "signup" /\ resp.req.password # resp.req.confirmPassword) =>
    /\ resp.calls = <<>>
    /\ ~ok200(resp)
    /\ resp.status >= 400
    /\ setsNoCookie(resp)

C8_Witness ==
  /\ resp.op = "signup"
  /\ resp.req.password # resp.req.confirmPassword
  /\ ~existsByEmail(resp.req.email)
  /\ resp.status = 400

\* C9: logout always answers 200 with success and writes both token cookies with
\* maxAge 0 and an expiry in the past, whatever cookies the request carried.
C9_LogoutAlwaysClears ==
  resp.op = "logout" =>
    /\ ok200(resp)
    /\ \A n \in {ACCESS_TOKEN, REFRESH_TOKEN} :
         /\ resp.cookies[n].set
         /\ resp.cookies[n].value = EmptyString
         /\ resp.cookies[n].opts.maxAge = 0
         /\ resp.cookies[n].opts.expires.given
         /\ resp.cookies[n].opts.expires.time < now

C9_Witness ==
  /\ resp.op = "logout"
  /\ resp.req.accessToken = Absent /\ resp.req.refreshToken = Absent
  /\ ok200(resp)

\* C10 (as claimed): a signin with an unknown email or a wrong password is answered
\* with status 401 and a JSON body whose success field is false.
C10_SigninFailureIs401 ==
  (resp.op = "signin" /\ ~login(resp.req.email, resp.req.password).ok) =>
    /\ resp.status = 401
    /\ resp.body.type = "json"
    /\ ~resp.body.success

\* a signin request fails by lookup miss, or by password mismatch on the account found
lookupMiss(body) == findOneByEmail(body.email) = {}
passwordMismatch(body) ==
  \E u \in findOneByEmail(body.email) : ~comparePassword(u, body.password)

\* C11: a signin that fails by lookup miss or password mismatch is not answered with
\* success and sets neither token cookie, and the step that answers it leaves the user
\* store and the tokens in circulation as they were (no token is issued).
C11_FailedSigninFrame ==
  /\ []( ( /\ resp.op = "signin"
           /\ lookupMiss(resp.req) \/ passwordMismatch(resp.req) )
         => ~ok200(resp) /\ setsNoCookie(resp) )
  /\ [][ ( /\ resp = NoResponse /\ resp'.op = "signin"
           /\ lookupMiss(resp'.req) \/ passwordMismatch(resp'.req) )
         => users' = users /\ nextOid' = nextOid /\ kept' = kept ]_vars

C11_Witness ==
  /\ resp.op = "signin"
  /\ passwordMismatch(resp.req)
  /\ kept.held
  /\ setsNoCookie(resp)

\* C12: whenever one signin request fails because its email has no account and another
\* because its password does not match the account found, the two are answered alike:
\* same error kind, same message, same status, same body.
C12_SigninFailureUndifferentiated ==
  phase = "running" =>
    \A b1, b2 \in SigninBodies :
      (lookupMiss(b1) /\ passwordMismatch(b2)) =>
        LET o1 == signinRoute(b1)
            o2 == signinRoute(b2)
        IN /\ ~o1.result.ok /\ ~o2.result.ok
           /\ o1.result.error.name = o2.result.error.name
           /\ o1.result.error.message = o2.result.error.message
           /\ o1.res.status = o2.res.status
           /\ o1.res.body = o2.res.body
           /\ o1.res.cookies = o2.res.cookies

C12_Witness ==
  /\ resp.op = "signin"
  /\ lookupMiss(resp.req)
  /\ \E b2 \in SigninBodies :
       /\ passwordMismatch(b2)
       /\ signinRoute(b2).res.status = resp.status
       /\ signinRoute(b2).res.body = resp.body

\* the response writes both token cookies empty with maxAge 0
clearsBothNow(res) ==
  \A n \in {ACCESS_TOKEN, REFRESH_TOKEN} :
    /\ res.cookies[n].set
    /\ res.cookies[n].value = EmptyString
    /\ res.cookies[n].opts.maxAge = 0

\* the refresh service refuses the token: verification fails, or its user is gone
refreshRefused(token) ==
  LET decoded == verifyRefreshToken(token) IN
  ~decoded.ok \/ findById(decoded.id) = {}

\* C13: a refresh request whose refresh cookie fails verification (expired, bad
\* signature, no JWT) or whose user no longer exists is answered 401 with a JSON
\* failure, and both token cookies are written empty with maxAge 0; no token is set.
C13_RefusedRefreshClears ==
  ( /\ resp.op = "refresh"
    /\ ~falsy(resp.req.refreshToken)
    /\ refreshRefused(resp.req.refreshToken) )
  => /\ resp.status = 401
     /\ resp.body.type = "json" /\ ~resp.body.success
     /\ clearsBothNow(resp)

C13_Witness ==
  /\ resp.op = "refresh"
  /\ resp.req.ownRefresh
  /\ ~verifyRefreshToken(resp.req.refreshToken).ok
  /\ verifyRefreshToken(resp.req.refreshToken).name = "TokenExpiredError"
  /\ resp.status = 401
  /\ clearsBothNow(resp)

\* C14 (as claimed): every refresh request that fails, the one without a refreshToken
\* cookie included, is answered 401 and has both token cookies cleared.
C14_AnyRefreshFailureClears ==
  (resp.op = "refresh" /\ ~ok200(resp)) =>
    resp.status = 401 /\ clearsBothNow(resp)

\* C14 (amended): every refresh request that fails is answered 401 with a JSON
\* failure; both token cookies are cleared when a refresh cookie was presented and
\* refused, and no cookie is written when the request carries no refreshToken cookie
\* (the answer is then 'Refresh token not found').
C14_RefreshFailure401 ==
  (resp.op = "refresh" /\ ~ok200(resp)) =>
    /\ resp.status = 401
    /\ resp.body.type = "json" /\ ~resp.body.success
    /\ IF falsy(resp.req.refreshToken)
         THEN setsNoCookie(resp) /\ resp.body.message = "Refresh token not found"
         ELSE clearsBothNow(resp)

C14_Witness ==
  /\ resp.op = "refresh"
  /\ resp.req.refreshToken = Absent
  /\ kept.held
  /\ resp.status = 401
  /\ setsNoCookie(resp)

\* C15: a request without accessToken cookie is answered by protectRoute with 401 and
\* the fixed message 'Invalid token'; next() is not called, verifyToken is not called
\* and res.locals.user stays unset.
C15_GuardMissingToken ==
  (resp.op = "protected" /\ resp.req.accessToken = Absent) =>
    /\ resp.status = 401
    /\ resp.body.type = "json" /\ ~resp.body.success
    /\ resp.body.message = "Invalid token"
    /\ ~resp.nextCalled /\ resp.nextCalls = 0
    /\ resp.calls = <<>>
    /\ resp.localsUser = NoUser

C15_Witness ==
  /\ resp.op = "protected"
  /\ resp.req.accessToken = Absent
  /\ kept.held /\ verifyToken(kept.accessToken).ok
  /\ resp.status = 401

\* C16: with an accessToken cookie present, protectRoute calls next() exactly once if
\* verifyToken accepts the token and not at all otherwise; when it does, res.locals.user
\* is the token's id and email and no response is written; when verification fails the
\* answer is 401 with the verification error's message and res.locals.user stays unset.
C16_GuardTokenPresent ==
  (resp.op = "protected" /\ ~falsy(resp.req.accessToken)) =>
    LET token == resp.req.accessToken
        decoded == verifyToken(token)
    IN /\ resp.nextCalled <=> decoded.ok
       /\ resp.nextCalls = IF decoded.ok THEN 1 ELSE 0
       /\ decoded.ok =>
            /\ resp.localsUser = [attached |-> TRUE, id |-> token.id, email |-> token.email]
            /\ resp.status = 0 /\ resp.body = NoBody
       /\ ~decoded.ok =>
            /\ resp.status = 401
            /\ resp.body.type = "json" /\ ~resp.body.success
            /\ resp.body.message = decoded.message
            /\ resp.localsUser = NoUser

C16_Witness ==
  /\ resp.op = "protected"
  /\ resp.req.ownAccess
  /\ now >= resp.req.accessToken.exp
  /\ resp.status = 401
  /\ resp.body.message = "jwt expired"

\* the user record a token was issued for is still there, with the token's email
recordMatches(token) ==
  \E u \in users : idClaim(u) = [id |-> token.id, email |-> token.email]

\* C17: protectRoute passes a request carrying an issued, unexpired access token and
\* attaches the token's identity also when the user record is gone or has another email;
\* and a step that changes nothing but the user store changes no outcome of the guard.
C17_GuardIgnoresStore ==
  /\ []( ( /\ resp.op = "protected"
           /\ resp.req.ownAccess
           /\ now < resp.req.accessToken.exp
           /\ ~recordMatches(resp.req.accessToken) )
         => /\ resp.nextCalled
            /\ resp.localsUser = [attached |-> TRUE, id |-> resp.req.accessToken.id,
                                   email |-> resp.req.accessToken.email] )
  /\ [][ (users' # users /\ kept' = kept /\ now' = now /\ processEnv' = processEnv)
         => \A access \in PresentedTokens :
              protectRoute(cookiesOf(access, Absent))' = protectRoute(cookiesOf(access, Absent))
       ]_vars

C17_Witness ==
  /\ resp.op = "protected"
  /\ resp.req.ownAccess
  /\ findById(resp.req.accessToken.id) # {}
  /\ ~recordMatches(resp.req.accessToken)
  /\ resp.nextCalled

CookieAttributes == {"path", "sameSite", "secure", "httpOnly"}

\* two option sets agree on path, sameSite, secure and httpOnly
agree(o1, o2) == \A a \in CookieAttributes : o1.base[a] = o2.base[a]

\* C18: in every configuration the service runs with, the options that write a token
\* cookie and the options that clear it agree on path, sameSite, secure and httpOnly;
\* so do the options of every cookie a response writes or clears.
C18_WriteClearAgree ==
  phase = "running" =>
    /\ agree(getAccessTokenCookieOptions, getClearCookieOptions)
    /\ agree(getRefreshTokenCookieOptions, getClearCookieOptions)
    /\ resp # NoResponse =>
         \A n \in {ACCESS_TOKEN, REFRESH_TOKEN} :
           resp.cookies[n].set =>
             IF resp.cookies[n].value = EmptyString
               THEN /\ agree(resp.cookies[n].opts, getAccessTokenCookieOptions)
                    /\ agree(resp.cookies[n].opts, getRefreshTokenCookieOptions)
               ELSE agree(resp.cookies[n].opts, getClearCookieOptions)

C18_Witness ==
  /\ resp.op = "logout"
  /\ kept.held
  /\ processEnv.NODE_ENV = "test"
  /\ processEnv.COOKIE_SECURE = "true"
  /\ resp.cookies[ACCESS_TOKEN].set
  /\ resp.cookies[ACCESS_TOKEN].opts.base.sameSite = "none"
  /\ resp.cookies[ACCESS_TOKEN].opts.base.secure

\* the option sets a response was written with: the access and refresh variants on
\* signup, signin and refresh, the clearing variant on logout and on a refused refresh
optionsWritten(res) ==
  {res.cookies[n].opts : n \in {m \in {ACCESS_TOKEN, REFRESH_TOKEN} : res.cookies[m].set}}

\* C19 (as claimed): in every environment mode and with every configuration value the
\* service accepts, each option set the Cookie Policy returns for a cookie a response
\* writes or clears has httpOnly = true.
C19_HttpOnlyAlways ==
  (phase = "running" /\ resp # NoResponse) =>
    \A o \in optionsWritten(resp) : o.base.httpOnly = TRUE

\* the boolean a setting written as true or false (or left out) asks for
configured(raw, dflt) == IF raw = UNSET THEN dflt ELSE raw = "true"

\* C20 (as claimed): when NODE_ENV is production each option set the Cookie Policy
\* returns for a cookie a response writes or clears has secure = true whatever
\* COOKIE_SECURE is; in the other modes secure is the configured COOKIE_SECURE value
\* (false when it is left out).
C20_SecurePolicy ==
  (phase = "running" /\ resp # NoResponse) =>
    \A o \in optionsWritten(resp) :
      IF processEnv.NODE_ENV = "production" THEN o.base.secure = TRUE
      ELSE processEnv.COOKIE_SECURE \in {UNSET, "true", "false"} =>
             o.base.secure = configured(processEnv.COOKIE_SECURE, FALSE)

\* the response is a JSON envelope reporting success
jsonSuccess(res) == res.body.type = "json" /\ res.body.success

\* C21 (as claimed): a signup that succeeds is answered with status 201, and the data
\* of its body has no password field.
C21_SignupIs201 ==
  (resp.op = "signup" /\ jsonSuccess(resp)) =>
    /\ resp.status = 201
    /\ "password" \notin DOMAIN resp.body.data

\* C22 (as claimed): a signup (valid body) whose email already has an account is
\* answered with status 400; no record is created, no token is issued and no cookie
\* is set.
C22_DuplicateEmailIs400 ==
  [][ ( /\ resp = NoResponse /\ resp'.op = "signup"
        /\ signupValidationOk(resp'.req)
        /\ existsByEmail(resp'.req.email) )
      => /\ resp'.status = 400
         /\ users' = users /\ kept' = kept
         /\ setsNoCookie(resp') ]_vars

\* C24 (as claimed): a signin or signup request whose handler or validation throws is
\* answered with a JSON error envelope, success = false, carrying an error status.
C24_ErrorsAreJsonEnvelopes ==
  (resp.op \in {"signin", "signup"} /\ ~jsonSuccess(resp)) =>
    /\ resp.body.type = "json"
    /\ ~resp.body.success
    /\ resp.status >= 400

\* the response sets a token cookie to a JWT
handsOutToken(res) ==
  \E n \in {ACCESS_TOKEN, REFRESH_TOKEN} :
    res.cookies[n].set /\ res.cookies[n].value # EmptyString

\* C26: whenever a response hands tokens to a client, it answers a signup that created
\* the record the tokens name, a signin whose password matches the stored hash of the
\* existing user they name, or a refresh whose refresh token verified and whose user
\* existed; and the tokens a client comes to hold are those of such a response.
C26_TokensOnlyAfterAuthentication ==
  [][ ( (resp = NoResponse /\ resp'.op # "none" /\ handsOutToken(resp')) =>
          LET req == resp'.req
              access == resp'.cookies[ACCESS_TOKEN].value
              refresh == resp'.cookies[REFRESH_TOKEN].value
          IN /\ access.kind = "jwt" /\ refresh.kind = "jwt"
             /\ access.id = refresh.id
             /\ \/ /\ resp'.op = "signup"
                   /\ ~existsByEmail(req.email)
                   /\ \E u \in users' \ users :
                        u.email = req.email /\ toHexString(u._id) = access.id
                \/ /\ resp'.op = "signin"
                   /\ \E u \in users :
                        /\ u.email = req.email
                        /\ comparePassword(u, req.password)
                        /\ toHexString(u._id) = access.id
                \/ /\ resp'.op = "refresh"
                   /\ verifyRefreshToken(req.refreshToken).ok
                   /\ \E u \in users :
                        /\ toHexString(u._id) = verifyRefreshToken(req.refreshToken).id
                        /\ toHexString(u._id) = access.id )
      /\ ( (kept'.held /\ kept' # kept /\ ~(kept.held /\ kept'.accessToken = kept.accessToken
                                               /\ kept'.refreshToken = kept.refreshToken)) =>
             /\ resp'.op \in {"signup", "signin", "refresh"}
             /\ resp'.cookies[ACCESS_TOKEN].set /\ resp'.cookies[REFRESH_TOKEN].set
             /\ resp'.cookies[ACCESS_TOKEN].value = kept'.accessToken
             /\ resp'.cookies[REFRESH_TOKEN].value = kept'.refreshToken ) ]_vars

C26_Witness ==
  /\ resp.op = "signin"
  /\ handsOutToken(resp)
  /\ now > StartOfTime
  /\ kept.held /\ kept.accessToken = resp.cookies[ACCESS_TOKEN].value

\* C27 (as claimed): no response of a route on the auth router carries an access or
\* refresh token in its body.
C27_TokensOnlyInCookies ==
  (resp.op \in {"signin", "signup", "logout", "refresh", "testCookie"} /\ jsonSuccess(resp)) =>
    DOMAIN resp.body.data \cap {ACCESS_TOKEN, REFRESH_TOKEN} = {}

\* C28 (as claimed): no log entry written while a signin or signup request is handled,
\* the failing ones included, holds the request's password or confirmPassword.
C28_PasswordsNeverLogged ==
  resp.op \in {"signin", "signup"} =>
    \A i \in 1..Len(resp.log) :
      DOMAIN resp.log[i].body \cap {"password", "confirmPassword"} = {}

\* C29: a signup that created its record is answered with success and both token
\* cookies set whether or not sendSignupEmail threw, the record is in the store, and
\* emailSent in the answer is true exactly when the email send returned without error.
C29_EmailFailureKeepsSignup ==
  (resp.op = "signup" /\ Len(resp.calls) >= 2 /\ resp.calls[2] = "create") =>
    /\ Len(resp.calls) = 3
    /\ resp.calls[3] \in {"sendSignupEmail", "sendSignupEmail throws"}
    /\ jsonSuccess(resp) /\ resp.status < 300
    /\ resp.body.data.emailSent <=> (resp.calls[3] = "sendSignupEmail")
    /\ setsFreshPair(resp)
    /\ \E u \in users :
         /\ u.email = resp.req.email
         /\ toHexString(u._id) = resp.cookies[ACCESS_TOKEN].value.id

C29_Witness ==
  /\ resp.op = "signup"
  /\ Len(resp.calls) = 3
  /\ resp.calls[3] = "sendSignupEmail throws"
  /\ jsonSuccess(resp)
  /\ ~resp.body.data.emailSent
  /\ existsByEmail(resp.req.email)

RequiredSecrets == {"JWT_SECRET", "JWT_REFRESH_SECRET", "SESSION_SECRET", "COOKIE_SECRET"}

\* NODE_ENV as the schema reads it
mode == IF processEnv.NODE_ENV = UNSET THEN "development" ELSE processEnv.NODE_ENV

\* C23: with NODE_ENV production (or test) and a required secret missing or shorter
\* than 32 characters the process has exited with code 1 during startup, never having
\* listened or accepted a connection; a process that runs with a secret missing is in
\* development mode and has the development default in its place.
C23_StartupSecrets ==
  /\ phase = "starting" => ~proc.handle /\ proc.connections = 0 /\ resp = NoResponse
  /\ ( /\ phase # "starting"
       /\ mode # "development"
       /\ \E n \in RequiredSecrets : processEnv[n] = UNSET \/ Len(processEnv[n]) < 32 )
     => /\ phase = "exited"
        /\ proc.exit = exit(1, "env validation")
        /\ ~proc.handle /\ proc.connections = 0 /\ resp = NoResponse
  /\ ( /\ phase # "starting"
       /\ \E n \in RequiredSecrets : processEnv[n] # UNSET /\ Len(processEnv[n]) < 32 )
     => proc.exit = exit(1, "env validation")
  /\ \A n \in RequiredSecrets :
       ( /\ phase # "starting"
         /\ proc.exit # exit(1, "env validation")
         /\ processEnv[n] = UNSET ) =>
         /\ mode = "development"
         /\ env[n] # UNSET /\ Len(env[n]) >= 32

C23_Witness ==
  /\ processEnv.NODE_ENV = "production"
  /\ processEnv.COOKIE_SECRET = SHORT
  /\ processEnv.JWT_SECRET = K1 /\ processEnv.JWT_REFRESH_SECRET = K2
  /\ processEnv.SESSION_SECRET = K1
  /\ phase = "exited"
  /\ proc.exit.code = 1

\* C30: once a shutdown trigger (SIGTERM, SIGINT, uncaught exception, unhandled
\* rejection) has arrived the process eventually exits, also when a second trigger
\* arrives meanwhile; it exits with code 0 only from the close callback of a close that
\* completed without error, with code 1 from a close callback that got an error, and
\* with code 1 when the 30-second timer fires first.
C30_GracefulShutdownTerminates ==
  /\ (proc.signals # <<>>) ~> (phase = "exited")
  /\ [][ (phase = "running" /\ phase' = "exited" /\ proc.signals # <<>>) =>
           /\ proc'.exit.exited
           /\ proc'.exit.code \in {0, 1}
           /\ proc'.exit.code = 0 =>
                /\ proc'.exit.by = "close callback"
                /\ ~proc.handle /\ proc.connections = 0
                /\ ~proc.closeListeners[1]
           /\ (proc'.exit.by = "close callback" /\ proc.closeListeners[1]) =>
                proc'.exit.code = 1
           /\ proc'.exit.by = "timeout" => proc'.exit.code = 1 /\ proc.timers > 0
           /\ proc'.exit.by \in {"close callback", "timeout"} ]_vars

C30_Witness ==
  /\ phase = "exited"
  /\ Len(proc.signals) = 2
  /\ proc.connections > 0
  /\ proc.exit = exit(1, "timeout")

\* the signup request in slot r got a token pair
receivedTokens(r) ==
  /\ pending[r].pc \in {"sendSignupEmail", "done"}
  /\ handsOutToken(pending[r].res)

\* C25: however two signup requests with the same email interleave their existsByEmail
\* and create steps, there is at most one user record with that email and at most one
\* of the requests gets a token pair.
C25_ConcurrentSignupOnce ==
  /\ \A e \in Emails : Cardinality({u \in users : u.email = e}) <= 1
  /\ \A r1, r2 \in 1..MaxRequests :
       ( /\ r1 # r2
         /\ pending[r1].pc # "idle" /\ pending[r2].pc # "idle"
         /\ pending[r1].body.email = pending[r2].body.email )
       => ~(receivedTokens(r1) /\ receivedTokens(r2))

C25_Witness ==
  /\ pending[1].pc = "done" /\ pending[2].pc = "done"
  /\ pending[1].body.email = pending[2].body.email
  /\ receivedTokens(2)
  /\ pending[1].res.calls = <<"existsByEmail", "create throws">>
  /\ pending[1].res.status = 500
====
